---- MODULE Spec2Model ----
(***************************************************************************)
(* One-dimensional two-body collision simulator (src/App.tsx).             *)
(*                                                                         *)
(* Numbers.  The program computes in IEEE doubles; the model computes the  *)
(* same expressions in exact rational arithmetic.  A rational is a pair    *)
(* <<n, d>> with d > 0 and gcd(n, d) = 1.  Timestamps and elapsed time are *)
(* integers in milliseconds (dt in seconds is ms/1000).  Values stored in  *)
(* the sample history are integers in hundredths, as toFixed(2) makes them.*)
(***************************************************************************)
EXTENDS Integers, Sequences, FiniteSets, TLC

(* ------------------------------ bounds --------------------------------- *)
\* Ticks (frame callbacks) and user edits allowed in a behaviour of Spec.
MaxTicks == 3
MaxEdits == 3
\* Ticks and edits allowed in a behaviour of SpecLong (long runs, fixed frame period).
MaxLongTicks == 84
MaxLongEdits == 2
MaxRequests == 2

\* Values a user types into the mass and velocity inputs, and slider positions.
Masses == {6}
Velocities == {80}
Elasticities == {<<0, 1>>, <<1, 2>>, <<1, 1>>}
\* Gaps in ms between two frame timestamps in Spec; frame periods of SpecLong.
Gaps == {50, 250}
FramePeriods == {20, 100}

(* ------------------------- program constants --------------------------- *)
TRACK_LENGTH == 10
MAX_DT_MS == 100
CHART_INTERVAL_MS == 66
HISTORY_CAP == 80
CONTACT_MARGIN == <<1, 10>>
SEPARATION == <<3, 50>>

(* ------------------------- rational arithmetic ------------------------- *)
Abs(n) == IF n < 0 THEN -n ELSE n

RECURSIVE Gcd(_, _)
Gcd(a, b) == IF b = 0 THEN a ELSE Gcd(b, a % b)

Norm(n, d) ==
  LET g == Gcd(Abs(n), Abs(d))
      s == IF d < 0 THEN -1 ELSE 1
  IN <<s * (n \div g), s * (d \div g)>>

Num(n) == <<n, 1>>

Add(x, y) ==
  LET g == Gcd(x[2], y[2])
      l == (x[2] \div g) * y[2]
  IN Norm(x[1] * (l \div x[2]) + y[1] * (l \div y[2]), l)

Neg(x) == <<-x[1], x[2]>>

Sub(x, y) == Add(x, Neg(y))

Mul(x, y) ==
  LET a == Norm(x[1], y[2])
      b == Norm(y[1], x[2])
  IN Norm(a[1] * b[1], a[2] * b[2])

Div(x, y) == Mul(x, IF y[1] < 0 THEN <<-y[2], -y[1]>> ELSE <<y[2], y[1]>>)

Leq(x, y) == Sub(x, y)[1] <= 0

Lt(x, y) == Sub(x, y)[1] < 0

\* Math.min replaced by its first argument (no cap).
Min_NoCap(a, b) == a

Min(a, b) == IF a < b THEN a ELSE b

\* parseFloat(x.toFixed(2)): x rounded to the nearest hundredth, ties away from
\* zero, as an integer number of hundredths.
ToFixed2(x) ==
  LET a == Abs(x[1])
      q == a \div x[2]
      r == a % x[2]
      h == q * 100 + (200 * r + x[2]) \div (2 * x[2])
  IN IF x[1] < 0 THEN -h ELSE h

(* ------------------------------- state --------------------------------- *)
VARIABLES
  isPlaying,            \* useState(false)
  time,                 \* displayed elapsed time, ms
  elasticity,           \* restitution coefficient, a rational
  ball1, ball2,         \* displayed bodies: [mass, velocity, position]
  dataHistory,          \* sequence of samples, oldest first
  analysis,             \* commentary text
  analysisStatus,       \* "IDLE" | "LOADING" | "SUCCESS" | "ERROR"
  initialStateSnapshot, \* [p, ke] or Null
  requestRef,           \* TRUE iff a frame callback is scheduled
  lastTimeRef,          \* timestamp of the previous tick, 0 for undefined
  lastChartUpdateRef,   \* timestamp of the last chart sample
  ballsRef,             \* live engine state [b1, b2]
  totalTimeRef,         \* elapsed simulation time, ms
  now,                  \* timestamp of the latest frame, ms
  frame,                \* gap in ms before the latest frame, 0 before the first
  ticks, edits,         \* number of ticks and of user edits so far
  counts,               \* contacts, wall reflections and dt summed since the last reset
  pending,              \* number of handleAIAnalyze calls awaiting analyzeCollision
  requests,             \* analysis requests: [total, sinceReset]
  last                  \* what the latest operation was and did

vars == <<isPlaying, time, elasticity, ball1, ball2, dataHistory, analysis,
          analysisStatus, initialStateSnapshot, requestRef, lastTimeRef,
          lastChartUpdateRef, ballsRef, totalTimeRef, now, frame, ticks, edits,
          counts, pending, requests, last>>

Ball(m, v, p) == [mass |-> m, velocity |-> v, position |-> p]

InitialPosition1 == Num(2)
InitialVelocity1 == Num(3)
InitialPosition2 == Num(8)
InitialVelocity2 == Num(-2)

Momentum(a, b) ==
  Add(Mul(Num(a.mass), a.velocity), Mul(Num(b.mass), b.velocity))

KineticEnergy(a, b) ==
  Add(Mul(<<a.mass, 2>>, Mul(a.velocity, a.velocity)),
      Mul(<<b.mass, 2>>, Mul(b.velocity, b.velocity)))

(* ------------------------- calculatePhysics ---------------------------- *)
\* nextPos = position + velocity * dt
Integrate(b, dt) == Add(b.position, Mul(b.velocity, dt))

\* Left wall, body 1.
Boundary1(pos, vel) ==
  IF Leq(pos, Num(0))
  THEN [position |-> Num(0), velocity |-> Neg(vel), flipped |-> TRUE]
  ELSE [position |-> pos, velocity |-> vel, flipped |-> FALSE]

\* Boundary2 clamping the position but leaving the velocity as it was.
Boundary2_NoFlip(pos, vel) ==
  IF Leq(Num(TRACK_LENGTH), pos)
  THEN [position |-> Num(TRACK_LENGTH), velocity |-> vel, flipped |-> TRUE]
  ELSE [position |-> pos, velocity |-> vel, flipped |-> FALSE]

\* Right wall, body 2.
Boundary2(pos, vel) ==
  IF Leq(Num(TRACK_LENGTH), pos)
  THEN [position |-> Num(TRACK_LENGTH), velocity |-> Neg(vel), flipped |-> TRUE]
  ELSE [position |-> pos, velocity |-> vel, flipped |-> FALSE]

\* Contact detected only once body 1 is strictly past body 2.
Contact_NoMargin(p1, p2) == Lt(p2, p1)

\* nextPos1 >= nextPos2 - 0.1
Contact(p1, p2) == Leq(Sub(p2, CONTACT_MARGIN), p1)

\* NewV1 with the sign of e * m2 slipped.
NewV1_SignSlip(m1, m2, v1, v2, e) ==
  Div(Add(Mul(Add(Num(m1), Mul(e, Num(m2))), v1),
          Mul(Mul(Add(Num(1), e), Num(m2)), v2)),
      Num(m1 + m2))

\* NewV1 with the restitution coefficient left out (always elastic).
NewV1_NoRestitution(m1, m2, v1, v2, e) ==
  Div(Add(Mul(Num(m1 - m2), v1), Mul(Num(2 * m2), v2)), Num(m1 + m2))

NewV1(m1, m2, v1, v2, e) ==
  Div(Add(Mul(Sub(Num(m1), Mul(e, Num(m2))), v1),
          Mul(Mul(Add(Num(1), e), Num(m2)), v2)),
      Num(m1 + m2))

\* NewV2 with m2 where the first term takes m1.
NewV2_WrongMass(m1, m2, v1, v2, e) ==
  Div(Add(Mul(Mul(Add(Num(1), e), Num(m2)), v1),
          Mul(Sub(Num(m2), Mul(e, Num(m1))), v2)),
      Num(m1 + m2))

NewV2(m1, m2, v1, v2, e) ==
  Div(Add(Mul(Mul(Add(Num(1), e), Num(m1)), v1),
          Mul(Sub(Num(m2), Mul(e, Num(m1))), v2)),
      Num(m1 + m2))

MidPoint(p1, p2) == Div(Add(p1, p2), Num(2))

Separate1(mid) == Sub(mid, SEPARATION)

\* Separate2 with the contact margin in place of the separation offset.
Separate2_Margin(mid) == Add(mid, CONTACT_MARGIN)

Separate2(mid) == Add(mid, SEPARATION)

\* CalculatePhysics with the collision resolved on the proposed positions and
\* the entry velocities, before the walls are looked at.
CalculatePhysics_CollisionFirst(balls, dtMs, e) ==
  LET b1 == balls.b1
      b2 == balls.b2
      dt == Norm(dtMs, 1000)
      prop1 == Integrate(b1, dt)
      prop2 == Integrate(b2, dt)
      w1 == Boundary1(prop1, b1.velocity)
      w2 == Boundary2(prop2, b2.velocity)
      hit == Contact(prop1, prop2)
      mid == MidPoint(prop1, prop2)
      v1 == IF hit THEN NewV1(b1.mass, b2.mass, b1.velocity, b2.velocity, e)
            ELSE w1.velocity
      v2 == IF hit THEN NewV2(b1.mass, b2.mass, b1.velocity, b2.velocity, e)
            ELSE w2.velocity
      p1 == IF hit THEN Separate1(mid) ELSE w1.position
      p2 == IF hit THEN Separate2(mid) ELSE w2.position
  IN [b1 |-> Ball(b1.mass, v1, p1),
      b2 |-> Ball(b2.mass, v2, p2),
      prop1 |-> prop1, prop2 |-> prop2,
      w1 |-> w1, w2 |-> w2,
      contact |-> hit]

\* One step of the engine on the live state `balls` with dt = dtMs/1000 s.
\* The result holds the committed bodies and the intermediate values.
CalculatePhysics(balls, dtMs, e) ==
  LET b1 == balls.b1
      b2 == balls.b2
      dt == Norm(dtMs, 1000)
      prop1 == Integrate(b1, dt)
      prop2 == Integrate(b2, dt)
      w1 == Boundary1(prop1, b1.velocity)
      w2 == Boundary2(prop2, b2.velocity)
      hit == Contact(w1.position, w2.position)
      mid == MidPoint(w1.position, w2.position)
      v1 == IF hit THEN NewV1(b1.mass, b2.mass, w1.velocity, w2.velocity, e)
            ELSE w1.velocity
      v2 == IF hit THEN NewV2(b1.mass, b2.mass, w1.velocity, w2.velocity, e)
            ELSE w2.velocity
      p1 == IF hit THEN Separate1(mid) ELSE w1.position
      p2 == IF hit THEN Separate2(mid) ELSE w2.position
  IN [b1 |-> Ball(b1.mass, v1, p1),
      b2 |-> Ball(b2.mass, v2, p2),
      prop1 |-> prop1, prop2 |-> prop2,
      w1 |-> w1, w2 |-> w2,
      contact |-> hit]

(* --------------------------- updateCharts ------------------------------ *)
Sample(balls, currentTimeMs) ==
  [time |-> ToFixed2(Norm(currentTimeMs, 1000)),
   v1 |-> ToFixed2(balls.b1.velocity),
   v2 |-> ToFixed2(balls.b2.velocity),
   totalMomentum |-> ToFixed2(Momentum(balls.b1, balls.b2)),
   totalKineticEnergy |-> ToFixed2(KineticEnergy(balls.b1, balls.b2))]

\* AppendSample trimming one entry too late.
AppendSample_OffByOne(prev, newData) ==
  LET newHist == Append(prev, newData)
  IN IF Len(newHist) > HISTORY_CAP + 1
     THEN SubSeq(newHist, Len(newHist) - HISTORY_CAP + 1, Len(newHist))
     ELSE newHist

\* setDataHistory(prev => ...): append, keep the last HISTORY_CAP points.
AppendSample(prev, newData) ==
  LET newHist == Append(prev, newData)
  IN IF Len(newHist) > HISTORY_CAP
     THEN SubSeq(newHist, Len(newHist) - HISTORY_CAP + 1, Len(newHist))
     ELSE newHist

(* ------------------------------- Init ---------------------------------- *)
\* The value of initialStateSnapshot when there is no snapshot.
Null == [null |-> TRUE]

NoStep == [op |-> "init"]

NoCounts == [contacts |-> 0, reflections |-> 0, dtSum |-> 0]

Bit(b) == IF b THEN 1 ELSE 0

Init ==
  /\ isPlaying = FALSE
  /\ time = 0
  /\ elasticity = Num(1)
  /\ ball1 = Ball(2, InitialVelocity1, InitialPosition1)
  /\ ball2 = Ball(2, InitialVelocity2, InitialPosition2)
  /\ dataHistory = <<>>
  /\ analysis = ""
  /\ analysisStatus = "IDLE"
  /\ initialStateSnapshot = Null
  /\ requestRef = FALSE
  /\ lastTimeRef = 0
  /\ lastChartUpdateRef = 0
  /\ ballsRef = [b1 |-> ball1, b2 |-> ball2]
  /\ totalTimeRef = 0
  /\ now = 0
  /\ frame = 0
  /\ ticks = 0
  /\ edits = 0
  /\ counts = NoCounts
  /\ pending = 0
  /\ requests = [total |-> 0, sinceReset |-> 0]
  /\ last = NoStep

(* ------------------------- animateOptimized ---------------------------- *)
\* The frame callback, run with timestamp = now + gap.
Tick(gap, limit) ==
  /\ requestRef
  /\ ticks < limit
  /\ LET timestamp == now + gap
         prev == IF lastTimeRef = 0 THEN timestamp ELSE lastTimeRef
         deltaMs == timestamp - prev
         safeDt == Min(deltaMs, MAX_DT_MS)
         r == CalculatePhysics(ballsRef, safeDt, elasticity)
         live == [b1 |-> r.b1, b2 |-> r.b2]
         total == totalTimeRef + safeDt
         chart == timestamp - lastChartUpdateRef > CHART_INTERVAL_MS
     IN /\ ballsRef' = live
        /\ ball1' = r.b1
        /\ ball2' = r.b2
        /\ totalTimeRef' = total
        /\ time' = total
        /\ lastTimeRef' = timestamp
        /\ now' = timestamp
        /\ frame' = gap
        /\ counts' = [contacts |-> counts.contacts + Bit(r.contact),
                       reflections |-> counts.reflections + Bit(r.w1.flipped)
                                       + Bit(r.w2.flipped),
                       dtSum |-> counts.dtSum + safeDt]
        /\ dataHistory' = IF chart THEN AppendSample(dataHistory, Sample(live, total))
                          ELSE dataHistory
        /\ lastChartUpdateRef' = IF chart THEN timestamp ELSE lastChartUpdateRef
        /\ last' = [op |-> "tick", dt |-> safeDt, delta |-> deltaMs,
                    before |-> ballsRef, step |-> r, e |-> elasticity,
                    sampled |-> chart, histBefore |-> Len(dataHistory),
                    totalBefore |-> totalTimeRef, timestamp |-> timestamp,
                    lastTimeBefore |-> lastTimeRef]
  /\ ticks' = ticks + 1
  /\ requestRef' = TRUE
  /\ UNCHANGED <<isPlaying, elasticity, analysis, analysisStatus,
                 initialStateSnapshot, edits, pending, requests>>

(* ----------------------------- togglePlay ------------------------------ *)
\* togglePlay with an effect that leaves lastTimeRef alone when pausing.
TogglePlay_KeepsLastTime ==
  /\ initialStateSnapshot' =
       IF ~isPlaying /\ Len(dataHistory) = 0
       THEN [p |-> Momentum(ball1, ball2), ke |-> KineticEnergy(ball1, ball2)]
       ELSE initialStateSnapshot
  /\ isPlaying' = ~isPlaying
  /\ IF isPlaying'
     THEN /\ requestRef' = TRUE
          /\ UNCHANGED <<lastTimeRef, ballsRef>>
     ELSE /\ requestRef' = FALSE
          /\ lastTimeRef' = lastTimeRef
          /\ ballsRef' = [b1 |-> ball1, b2 |-> ball2]
  /\ last' = [op |-> IF isPlaying THEN "pause" ELSE "play"]
  /\ UNCHANGED <<time, elasticity, ball1, ball2, dataHistory, analysis,
                 analysisStatus, lastChartUpdateRef, totalTimeRef, now,
                 frame, ticks, edits, counts, pending, requests>>

\* togglePlay, the re-render and the two effects it triggers.
TogglePlay ==
  /\ initialStateSnapshot' =
       IF ~isPlaying /\ Len(dataHistory) = 0
       THEN [p |-> Momentum(ball1, ball2), ke |-> KineticEnergy(ball1, ball2)]
       ELSE initialStateSnapshot
  /\ isPlaying' = ~isPlaying
  /\ IF isPlaying'
     THEN /\ requestRef' = TRUE
          /\ UNCHANGED <<lastTimeRef, ballsRef>>
     ELSE /\ requestRef' = FALSE
          /\ lastTimeRef' = 0
          /\ ballsRef' = [b1 |-> ball1, b2 |-> ball2]
  /\ last' = [op |-> IF isPlaying THEN "pause" ELSE "play"]
  /\ UNCHANGED <<time, elasticity, ball1, ball2, dataHistory, analysis,
                 analysisStatus, lastChartUpdateRef, totalTimeRef, now,
                 frame, ticks, edits, counts, pending, requests>>

(* ----------------------------- handleReset ----------------------------- *)
ResetBall1(b) == [b EXCEPT !.position = InitialPosition1, !.velocity = InitialVelocity1]

ResetBall2(b) == [b EXCEPT !.position = InitialPosition2, !.velocity = InitialVelocity2]

\* handleReset without the line that zeroes totalTimeRef.
HandleReset_KeepsTotalTime ==
  /\ isPlaying' = FALSE
  /\ time' = 0
  /\ totalTimeRef' = totalTimeRef
  /\ ball1' = ResetBall1(ball1)
  /\ ball2' = ResetBall2(ball2)
  /\ ballsRef' = [b1 |-> ResetBall1(ball1), b2 |-> ResetBall2(ball2)]
  /\ dataHistory' = <<>>
  /\ analysis' = ""
  /\ analysisStatus' = "IDLE"
  /\ initialStateSnapshot' = Null
  /\ requestRef' = FALSE
  /\ lastTimeRef' = 0
  /\ counts' = NoCounts
  /\ requests' = [requests EXCEPT !.sinceReset = 0]
  /\ last' = [op |-> "reset", wasPlaying |-> isPlaying, ticksBefore |-> ticks]
  /\ UNCHANGED <<elasticity, lastChartUpdateRef, now, frame, ticks, edits,
                 pending>>

\* handleReset, the re-render and the effects it triggers.
HandleReset ==
  /\ isPlaying' = FALSE
  /\ time' = 0
  /\ totalTimeRef' = 0
  /\ ball1' = ResetBall1(ball1)
  /\ ball2' = ResetBall2(ball2)
  /\ ballsRef' = [b1 |-> ResetBall1(ball1), b2 |-> ResetBall2(ball2)]
  /\ dataHistory' = <<>>
  /\ analysis' = ""
  /\ analysisStatus' = "IDLE"
  /\ initialStateSnapshot' = Null
  /\ requestRef' = FALSE
  /\ lastTimeRef' = 0
  /\ counts' = NoCounts
  /\ requests' = [requests EXCEPT !.sinceReset = 0]
  /\ last' = [op |-> "reset", wasPlaying |-> isPlaying, ticksBefore |-> ticks]
  /\ UNCHANGED <<elasticity, lastChartUpdateRef, now, frame, ticks, edits,
                 pending>>

(* ------------------------------ the inputs ----------------------------- *)
\* The mass, velocity and elasticity inputs are disabled while playing.  Each
\* handler sets the state; the sync effect then copies it to ballsRef.
EditBalls(b1, b2, limit) ==
  /\ ~isPlaying
  /\ edits < limit
  /\ <<b1, b2>> # <<ball1, ball2>>
  /\ ball1' = b1
  /\ ball2' = b2
  /\ ballsRef' = [b1 |-> b1, b2 |-> b2]
  /\ edits' = edits + 1
  /\ last' = [op |-> "edit"]
  /\ UNCHANGED <<isPlaying, time, elasticity, dataHistory, analysis,
                 analysisStatus, initialStateSnapshot, requestRef, lastTimeRef,
                 lastChartUpdateRef, totalTimeRef, now, frame, ticks, counts,
                 pending, requests>>

SetMass1(m, limit) == EditBalls([ball1 EXCEPT !.mass = m], ball2, limit)

SetMass2(m, limit) == EditBalls(ball1, [ball2 EXCEPT !.mass = m], limit)

SetVelocity1(v, limit) == EditBalls([ball1 EXCEPT !.velocity = Num(v)], ball2, limit)

SetVelocity2(v, limit) == EditBalls(ball1, [ball2 EXCEPT !.velocity = Num(v)], limit)

SetElasticity(e, limit) ==
  /\ ~isPlaying
  /\ edits < limit
  /\ e # elasticity
  /\ elasticity' = e
  /\ edits' = edits + 1
  /\ last' = [op |-> "edit"]
  /\ UNCHANGED <<isPlaying, time, ball1, ball2, dataHistory, analysis,
                 analysisStatus, initialStateSnapshot, requestRef, lastTimeRef,
                 lastChartUpdateRef, ballsRef, totalTimeRef, now, frame,
                 ticks, counts, pending, requests>>

(* --------------------------- handleAIAnalyze --------------------------- *)
\* What analyzeCollision can resolve to: the missing-key message, the model's
\* text, the fallback for an empty text, the message of the catch branch.
Reports == {"API Key missing. Cannot generate analysis.", "response.text",
            "no analysis generated", "error during analysis"}

\* A click on the analysis button, up to the await.  The button is rendered
\* unless the status is LOADING and is disabled without a snapshot.
HandleAIAnalyze ==
  /\ analysisStatus # "LOADING"
  /\ initialStateSnapshot # Null
  /\ requests.total < MaxRequests
  /\ analysisStatus' = "LOADING"
  /\ pending' = pending + 1
  /\ requests' = [total |-> requests.total + 1,
                  sinceReset |-> requests.sinceReset + 1]
  /\ last' = [op |-> "analyze"]
  /\ UNCHANGED <<isPlaying, time, elasticity, ball1, ball2, dataHistory,
                 analysis, initialStateSnapshot, requestRef, lastTimeRef,
                 lastChartUpdateRef, ballsRef, totalTimeRef, now, frame,
                 ticks, edits, counts>>

\* analyzeCollision resolves to `result` and handleAIAnalyze runs to its end.
AnalyzeResolved(result) ==
  /\ pending > 0
  /\ analysis' = result
  /\ analysisStatus' = "SUCCESS"
  /\ pending' = pending - 1
  /\ last' = [op |-> "analysis"]
  /\ UNCHANGED <<isPlaying, time, elasticity, ball1, ball2, dataHistory,
                 initialStateSnapshot, requestRef, lastTimeRef,
                 lastChartUpdateRef, ballsRef, totalTimeRef, now, frame,
                 ticks, edits, counts, requests>>

(* --------------------------- specifications ---------------------------- *)
Next ==
  \/ \E gap \in Gaps : Tick(gap, MaxTicks)
  \/ TogglePlay
  \/ HandleReset
  \/ \E m \in Masses : SetMass1(m, MaxEdits)
  \/ \E m \in Masses : SetMass2(m, MaxEdits)
  \/ \E v \in Velocities : SetVelocity1(v, MaxEdits)
  \/ \E v \in Velocities : SetVelocity2(v, MaxEdits)
  \/ \E e \in Elasticities : SetElasticity(e, MaxEdits)

Spec == Init /\ [][Next]_vars

\* Long runs: the display delivers frames at one fixed period; the user sets
\* masses and elasticity before a run, starts it, and may reset it at any time.
Fresh == ~isPlaying /\ totalTimeRef = 0 /\ dataHistory = <<>>

TickLong(gap) == (frame = 0 \/ frame = gap) /\ Tick(gap, MaxLongTicks)

Play == ~isPlaying /\ TogglePlay

NextLong ==
  \/ \E gap \in FramePeriods : TickLong(gap)
  \/ Play
  \/ HandleReset
  \/ \E m \in Masses : Fresh /\ SetMass1(m, MaxLongEdits)
  \/ \E m \in Masses : Fresh /\ SetMass2(m, MaxLongEdits)
  \/ \E e \in Elasticities : Fresh /\ SetElasticity(e, MaxLongEdits)

SpecLong == Init /\ [][NextLong]_vars

\* The commentary: runs, resets and analysis requests, with the parameters
\* left at their defaults.
NextAnalysis ==
  \/ \E gap \in Gaps : Tick(gap, MaxTicks)
  \/ TogglePlay
  \/ HandleReset
  \/ HandleAIAnalyze
  \/ \E result \in Reports : AnalyzeResolved(result)

SpecAnalysis == Init /\ [][NextAnalysis]_vars

(* ------------------------------ claims --------------------------------- *)
IsTick == last.op = "tick"

InTrack(b) == Leq(Num(0), b.position) /\ Leq(b.position, Num(TRACK_LENGTH))

Gap(balls) == Sub(balls.b2.position, balls.b1.position)

\* Kinetic energy and momentum of masses m1, m2 at velocities v1, v2.
KE(m1, m2, v1, v2) == KineticEnergy(Ball(m1, v1, Num(0)), Ball(m2, v2, Num(0)))

P(m1, m2, v1, v2) == Momentum(Ball(m1, v1, Num(0)), Ball(m2, v2, Num(0)))

\* C1: after every step that starts with both positions in [0, TRACK_LENGTH]
\* and body 1 left of body 2, both committed positions are in [0, TRACK_LENGTH].
C1_PositionsStayInTrack ==
  (/\ IsTick
   /\ InTrack(last.before.b1) /\ InTrack(last.before.b2)
   /\ Lt(last.before.b1.position, last.before.b2.position))
  => /\ InTrack(ballsRef.b1) /\ InTrack(ballsRef.b2)
     /\ InTrack(ball1) /\ InTrack(ball2)

\* C2: in a step with no wall reflection, a contact conserves m1*v1 + m2*v2,
\* and without contact each body keeps its velocity.
C2_MomentumConserved ==
  (IsTick /\ ~last.step.w1.flipped /\ ~last.step.w2.flipped)
  => IF last.step.contact
     THEN Momentum(ballsRef.b1, ballsRef.b2)
          = Momentum(last.before.b1, last.before.b2)
     ELSE /\ ballsRef.b1.velocity = last.before.b1.velocity
          /\ ballsRef.b2.velocity = last.before.b2.velocity

\* C2 witness: a contact with no wall reflection, unequal masses, 0 < e < 1
\* and momentum that is not zero.
C2_Witness ==
  /\ IsTick /\ last.step.contact
  /\ ~last.step.w1.flipped /\ ~last.step.w2.flipped
  /\ ballsRef.b1.mass # ballsRef.b2.mass
  /\ last.e = <<1, 2>>
  /\ last.dt > 0
  /\ Momentum(last.before.b1, last.before.b2) # Num(0)

\* Kinetic energy entering the collision resolution (after the boundary stage)
\* and leaving it.
KEIn == KE(last.before.b1.mass, last.before.b2.mass,
           last.step.w1.velocity, last.step.w2.velocity)

KEOut == KineticEnergy(ballsRef.b1, ballsRef.b2)

C4_WallReflection ==
  IsTick =>
    LET s == last.step
        v1 == last.before.b1.velocity
        v2 == last.before.b2.velocity
    IN /\ IF Leq(s.prop1, Num(0))
          THEN /\ s.w1.position = Num(0)
               /\ s.w1.velocity = Neg(v1)
               /\ Mul(s.w1.velocity, s.w1.velocity) = Mul(v1, v1)
          ELSE s.w1.position = s.prop1 /\ s.w1.velocity = v1
       /\ IF Leq(Num(TRACK_LENGTH), s.prop2)
          THEN /\ s.w2.position = Num(TRACK_LENGTH)
               /\ s.w2.velocity = Neg(v2)
               /\ Mul(s.w2.velocity, s.w2.velocity) = Mul(v2, v2)
          ELSE s.w2.position = s.prop2 /\ s.w2.velocity = v2
       /\ ~s.contact =>
            /\ ballsRef.b1.position = s.w1.position
            /\ ballsRef.b1.velocity = s.w1.velocity
            /\ ballsRef.b2.position = s.w2.position
            /\ ballsRef.b2.velocity = s.w2.velocity

\* C4 witness: body 2 moving past its wall is reflected while body 1, short
\* of its own wall, passes through.
C4_Witness ==
  /\ IsTick
  /\ Lt(Num(TRACK_LENGTH), last.step.prop2)
  /\ last.before.b2.velocity # Num(0)
  /\ Lt(Num(0), last.step.prop1)

\* C5: after every step that detects a contact the committed positions are
\* midpoint - 0.06 and midpoint + 0.06 of the proposed positions, 0.12 apart.
C5_SeparationExact ==
  (IsTick /\ last.step.contact)
  => LET mid == Div(Add(last.step.w1.position, last.step.w2.position), Num(2))
     IN /\ Gap(ballsRef) = <<3, 25>>
        /\ ballsRef.b1.position = Sub(mid, <<3, 50>>)
        /\ ballsRef.b2.position = Add(mid, <<3, 50>>)
        /\ ball1.position = ballsRef.b1.position
        /\ ball2.position = ballsRef.b2.position

\* C5 witness: a contact in which the proposed positions overlap.
C5_Witness ==
  /\ IsTick /\ last.step.contact
  /\ Lt(last.step.w2.position, last.step.w1.position)

\* C6: a step with dt = 0 leaves both positions unchanged and changes a
\* velocity only if the contact predicate already holds at entry.
C6_ZeroStepIsNoOp ==
  (IsTick /\ last.dt = 0)
  => /\ ballsRef.b1.position = last.before.b1.position
     /\ ballsRef.b2.position = last.before.b2.position
     /\ (\/ ballsRef.b1.velocity # last.before.b1.velocity
         \/ ballsRef.b2.velocity # last.before.b2.velocity)
        => Leq(Sub(last.before.b2.position, <<1, 10>>), last.before.b1.position)

\* The positions and velocities of the displayed and the live bodies, the
\* elapsed times and the history.
Motion == <<ball1.position, ball2.position, ballsRef.b1.position,
            ballsRef.b2.position, time, totalTimeRef, dataHistory>>

\* C7: the step taken by Reset ends Idle with no frame scheduled, elapsed time
\* 0 in both places, an empty history, and the displayed and the live bodies
\* at the initial positions and velocities with their masses kept; and while
\* Idle no step other than a Reset changes positions, elapsed time or history.
C7_ResetAtomic ==
  [][/\ (last'.op = "reset") =>
          /\ ~isPlaying' /\ ~requestRef'
          /\ time' = 0 /\ totalTimeRef' = 0
          /\ dataHistory' = <<>>
          /\ ball1' = [mass |-> ball1.mass, velocity |-> <<3, 1>>, position |-> <<2, 1>>]
          /\ ball2' = [mass |-> ball2.mass, velocity |-> <<-2, 1>>, position |-> <<8, 1>>]
          /\ ballsRef' = [b1 |-> ball1', b2 |-> ball2']
     /\ (~isPlaying /\ last'.op # "reset") => Motion' = Motion
     /\ (last'.op = "tick") => isPlaying]_vars

\* C7 witness: a Reset taken while Running, after the bodies have moved.
C7_Witness ==
  /\ last.op = "reset" /\ last.wasPlaying /\ last.ticksBefore >= 2
  /\ ballsRef.b1.mass # 2

\* C9: body 1's committed position is strictly less than body 2's; after a
\* step the gap is exactly 0.12 if it detected a contact and more than 0.1 if not.
C9_OrderPreserved ==
  /\ Lt(ballsRef.b1.position, ballsRef.b2.position)
  /\ Lt(ball1.position, ball2.position)
  /\ IsTick => IF last.step.contact
               THEN Gap(ballsRef) = <<3, 25>>
               ELSE Lt(<<1, 10>>, Gap(ballsRef))

\* C9 witness: a step whose proposed positions have body 1 beyond body 2.
C9_Witness ==
  /\ IsTick
  /\ Lt(last.step.prop2, last.step.prop1)
  /\ last.e # Num(1)

\* C8: the first contact of a run has no wall reflection before it and commits
\* positions 0.12 apart, with velocities -2 and 3 at e = 1 and 1/2 and 1/2 at
\* e = 0 when both masses are 2; every contact at e = 0 leaves both bodies at
\* (m1*v1 + m2*v2)/(m1 + m2), and at e = 1 with equal masses exchanges the
\* velocities.
C8_ContactScenario ==
  (IsTick /\ last.step.contact)
  => LET m1 == ballsRef.b1.mass
         m2 == ballsRef.b2.mass
         vin1 == last.step.w1.velocity
         vin2 == last.step.w2.velocity
         v1 == ballsRef.b1.velocity
         v2 == ballsRef.b2.velocity
     IN /\ (last.e = Num(0)) =>
             /\ v1 = Div(P(m1, m2, vin1, vin2), Num(m1 + m2))
             /\ v2 = v1
        /\ (last.e = Num(1) /\ m1 = m2) => (v1 = vin2 /\ v2 = vin1)
        /\ (counts.contacts = 1) =>
             /\ counts.reflections = 0
             /\ Gap(ballsRef) = <<3, 25>>
             /\ (m1 = 2 /\ m2 = 2 /\ last.e = Num(1)) =>
                  (v1 = <<-2, 1>> /\ v2 = <<3, 1>>)
             /\ (m1 = 2 /\ m2 = 2 /\ last.e = Num(0)) =>
                  (v1 = <<1, 2>> /\ v2 = <<1, 2>>)

\* C8 witness: the first contact of a run from the initial bodies at e = 0,
\* reached by steps of 20 ms.
C8_Witness ==
  /\ IsTick /\ last.step.contact
  /\ counts.contacts = 1
  /\ ballsRef.b1.mass = 2 /\ ballsRef.b2.mass = 2
  /\ last.e = Num(0)
  /\ last.dt = 20

Sorted(h) == \A i \in 1..(Len(h) - 1) : h[i].time <= h[i + 1].time

\* C10: the history never holds more than 80 samples; a sample appended to a
\* history of 80 drops the oldest and keeps the other 79 in order before the
\* new one; sample times never decrease from oldest to newest; Reset empties
\* the history.
C10_HistoryBounded ==
  [][/\ Len(dataHistory') <= 80
     /\ Sorted(dataHistory')
     /\ (last'.op = "tick" /\ last'.sampled) =>
          /\ Len(dataHistory') >= 1
          /\ IF Len(dataHistory) = 80
             THEN /\ Len(dataHistory') = 80
                  /\ \A i \in 1..79 : dataHistory'[i] = dataHistory[i + 1]
             ELSE /\ Len(dataHistory') = Len(dataHistory) + 1
                  /\ \A i \in 1..Len(dataHistory) : dataHistory'[i] = dataHistory[i]
          /\ dataHistory'[Len(dataHistory')].time = ToFixed2(Norm(totalTimeRef', 1000))
     /\ (last'.op = "tick" /\ ~last'.sampled) => dataHistory' = dataHistory
     /\ (last'.op = "reset") => dataHistory' = <<>>]_vars

\* C10 witness: a sample has just been appended to a history of 80.
C10_Witness ==
  /\ IsTick /\ last.sampled /\ last.histBefore = 80
  /\ Len(dataHistory) = 80

\* C11: every step of the tick loop gets dt with 0 <= dt <= 0.1 s, equal to the
\* time since the previous tick of the run capped at 0.1 s (0 when there is no
\* previous tick), integrates with that dt, and adds that same dt to the
\* elapsed time, which therefore equals the sum of the dt since the last Reset.
C11_ClampedDt ==
  /\ totalTimeRef = counts.dtSum
  /\ time = totalTimeRef
  /\ IsTick =>
       LET elapsed == IF last.lastTimeBefore = 0 THEN 0
                      ELSE last.timestamp - last.lastTimeBefore
           dt == <<last.dt, 1000>>
       IN /\ 0 <= last.dt /\ last.dt <= 100
          /\ last.dt = IF elapsed <= 100 THEN elapsed ELSE 100
          /\ totalTimeRef = last.totalBefore + last.dt
          /\ Sub(last.step.prop1, last.before.b1.position)
               = Mul(last.before.b1.velocity, dt)
          /\ Sub(last.step.prop2, last.before.b2.position)
               = Mul(last.before.b2.velocity, dt)

\* C11 witness: a tick more than 0.1 s after the previous one, after an
\* earlier tick of the run has already added to the elapsed time.
C11_Witness ==
  /\ IsTick
  /\ last.lastTimeBefore # 0
  /\ last.timestamp - last.lastTimeBefore > 100
  /\ last.totalBefore > 0

\* Position and velocity of a body after the wall check of its own wall.
Clamped1(pos) == IF Leq(pos, Num(0)) THEN Num(0) ELSE pos

Clamped2(pos) == IF Leq(Num(10), pos) THEN Num(10) ELSE pos

Flipped1(pos, vel) == IF Leq(pos, Num(0)) THEN Neg(vel) ELSE vel

Flipped2(pos, vel) == IF Leq(Num(10), pos) THEN Neg(vel) ELSE vel

\* C12: within a step the contact predicate and the separation midpoint are
\* computed from the wall-clamped proposed positions, and the collision formula
\* takes the wall-flipped velocities as its inputs.
C12_BoundaryBeforeCollision ==
  IsTick =>
    LET s == last.step
        m1 == last.before.b1.mass
        m2 == last.before.b2.mass
        c1 == Clamped1(s.prop1)
        c2 == Clamped2(s.prop2)
        f1 == Flipped1(s.prop1, last.before.b1.velocity)
        f2 == Flipped2(s.prop2, last.before.b2.velocity)
    IN /\ s.contact <=> Leq(Sub(c2, <<1, 10>>), c1)
       /\ s.contact =>
            /\ Add(ballsRef.b1.position, ballsRef.b2.position) = Add(c1, c2)
            /\ ballsRef.b1.velocity = NewV1(m1, m2, f1, f2, last.e)
            /\ ballsRef.b2.velocity = NewV2(m1, m2, f1, f2, last.e)

\* C12 witness: body 2 crosses its wall with a velocity that is not zero and
\* the bodies are in contact only once body 2 is clamped to the wall.
C12_Witness ==
  /\ IsTick /\ last.step.contact
  /\ Lt(Num(10), last.step.prop2)
  /\ last.before.b2.velocity # Num(0)
  /\ ~Leq(Sub(last.step.prop2, <<1, 10>>), last.step.prop1)

\* A step that pauses a run.
PauseStep == isPlaying /\ ~isPlaying' /\ last'.op = "pause"

\* The first tick after a start or a resume.
FirstTickStep == last.op = "play" /\ last'.op = "tick"

\* C13: a tick is taken only while playing, and while idle no frame is
\* scheduled; a pause leaves bodies, elapsed time and history as they are and
\* leaves the live state equal to the displayed bodies; the first tick after a
\* start or resume runs with dt = 0 whatever the wall-clock gap, so elapsed
\* time is as it was before it and the integration moves neither body.
C13_PauseResume ==
  [][ /\ (last'.op = "tick" /\ last' # last) => isPlaying /\ isPlaying'
      /\ ~isPlaying' => ~requestRef' /\ lastTimeRef' = 0
      /\ PauseStep =>
           /\ UNCHANGED <<Motion, ball1, ball2>>
           /\ ballsRef' = [b1 |-> ball1', b2 |-> ball2']
      /\ FirstTickStep =>
           /\ last'.lastTimeBefore = 0
           /\ last'.dt = 0
           /\ totalTimeRef' = totalTimeRef /\ time' = time
           /\ last'.step.prop1 = ballsRef.b1.position
           /\ last'.step.prop2 = ballsRef.b2.position
    ]_vars

\* C13 witness: a run was paused after it had advanced, was resumed, and the
\* first tick of the resumed run came 250 ms after the last tick before it.
C13_Witness ==
  /\ IsTick /\ last.lastTimeBefore = 0
  /\ last.totalBefore > 0
  /\ last.timestamp >= 500
  /\ last.dt = 0 /\ totalTimeRef = last.totalBefore

\* C14: as long as no analysis has been requested since the last Reset (or
\* since the start), the commentary text is empty and the status is IDLE.
C14_ResetClearsCommentary ==
  requests.sinceReset = 0 => analysis = "" /\ analysisStatus = "IDLE"

====
